---- MODULE Spec2Model ----
(***************************************************************************)
(* Model of src/visualisation/genre_wordcloud.py.                          *)
(*                                                                         *)
(* analyze_genre_distinctive_words is a pure function of (df,              *)
(* word_columns, top_n); create_genre_wordclouds and                       *)
(* save_individual_wordclouds are pure consumers of its result whose       *)
(* effects are the axes of one figure and the files written.               *)
(*                                                                         *)
(* Strings (genre names, word names, paths) are sequences of one-character *)
(* strings, so that str.replace and string concatenation are computed.     *)
(* A Python dict is a sequence of [k, v] records with distinct keys, in    *)
(* insertion order.                                                        *)
(*                                                                         *)
(* A score tf * np.log(n / d) is kept as the record [tf, n, d] and scores  *)
(* are compared exactly: tf1*ln(n1/d1) < tf2*ln(n2/d2) iff                 *)
(* n1^tf1 * d2^tf2 < n2^tf2 * d1^tf1.  (Floating-point rounding of the     *)
(* logarithm is not modelled.)                                             *)
(***************************************************************************)
EXTENDS Integers, Sequences, FiniteSets, TLC

VARIABLES
    pc,                 \* which call has completed
    df,                 \* the dataset: a sequence of rows [genre, counts]
    word_columns,       \* the word_columns argument
    top_n,              \* the top_n argument
    genre_word_counts,  \* line 20: genre -> (word -> summed count)
    idf_evals,          \* every evaluation of lines 41-50: [genre, word, tf, n, d]
    distinctive_words,  \* genre -> list of <<word, score>>
    raised,             \* the exception that left the last call, or "none"
    cols,               \* the cols argument of create_genre_wordclouds
    rows,               \* line 63
    axes,               \* the flattened axes of the figure, one record per cell
    saved,              \* one [save_path, written] per call of save_individual_wordclouds
    files               \* the files on disk: [path, genre, call], one per path

vars == <<pc, df, word_columns, top_n, genre_word_counts, idf_evals,
          distinctive_words, raised, cols, rows, axes, saved, files>>

(***************************************************************************)
(* Bounds of the model.                                                    *)
(***************************************************************************)
MaxRows == 3        \* rows of the dataset
MaxCols == 2        \* largest cols of the grid
MaxGenres == 2      \* most genres in a result mapping given to the renderer

Rock == <<"r", "o", "c", "k">>
Jazz == <<"j", "a", "z", "z">>
RnB == <<"r", "/", "b">>
R_B == <<"r", "_", "b">>
GenreOrder == <<Rock, Jazz, RnB>>
Genres == {GenreOrder[i] : i \in 1..Len(GenreOrder)}

Guitar == <<"g", "u", "i", "t", "a", "r">>
MyLove == <<"m", "y", "_", "l", "o", "v", "e">>
Swing == <<"s", "w", "i", "n", "g">>
DfColumns == {Guitar, MyLove}           \* the word-count columns the dataset has
ColumnNames == DfColumns \cup {Swing}   \* Swing is no column of the dataset
Counts == {0, 1}                        \* the count of a word in one song

SeqsUpTo(S, n) == UNION {[1..k -> S] : k \in 0..n}

(***************************************************************************)
(* Python dict, list slice and str.replace.                                *)
(***************************************************************************)
HasKey(d, key) == \E i \in 1..Len(d) : d[i].k = key

Get(d, key) == d[CHOOSE i \in 1..Len(d) : d[i].k = key].v

\* d[key] = value: a new key goes last, an old key keeps its place
Put(d, key, value) ==
    IF HasKey(d, key)
    THEN [i \in 1..Len(d) |-> IF d[i].k = key THEN [k |-> key, v |-> value] ELSE d[i]]
    ELSE Append(d, [k |-> key, v |-> value])

KeySet(d) == {d[i].k : i \in 1..Len(d)}

\* s[:n]
SliceTo(s, n) ==
    IF n >= 0
    THEN SubSeq(s, 1, IF n < Len(s) THEN n ELSE Len(s))
    ELSE SubSeq(s, 1, IF Len(s) + n > 0 THEN Len(s) + n ELSE 0)

\* s.replace(old, new) for one-character old and new
Replace(s, old, new) == [i \in 1..Len(s) |-> IF s[i] = old THEN new ELSE s[i]]

(***************************************************************************)
(* Step 1 of analyze_genre_distinctive_words: aggregate counts by genre.   *)
(***************************************************************************)
\* df[genre_column].unique(): the genres in order of first appearance
RECURSIVE Unique(_)
Unique(s) ==
    IF s = <<>> THEN <<>>
    ELSE LET front == Unique(SubSeq(s, 1, Len(s) - 1))
             last == s[Len(s)].genre
         IN  IF \E i \in 1..Len(front) : front[i] = last THEN front
             ELSE Append(front, last)

AllSongs(d, genre) == d

\* df[df[genre_column] == genre]
GenreSongs(d, genre) == SelectSeq(d, LAMBDA r : r.genre = genre)

\* genre_songs[word_col].sum()
RECURSIVE ColumnSum(_, _)
ColumnSum(songs, word_col) ==
    IF songs = <<>> THEN 0
    ELSE Head(songs).counts[word_col] + ColumnSum(Tail(songs), word_col)

InColumnsAlways(word_col) == TRUE

\* word_col in df.columns
InColumns(word_col) == word_col \in DfColumns

RecordAllTotals(total) == TRUE

\* total_count > 0
IsRecorded(total) == total > 0

\* lines 27-31 for one genre; acc is [counts, raised].  genre_word_counts is a
\* defaultdict: the genre's entry is made by the first assignment of line 31.
RECURSIVE AggregateGenre(_, _, _, _)
AggregateGenre(acc, genre, songs, columns) ==
    IF columns = <<>> \/ acc.raised /= "none" THEN acc
    ELSE LET word_col == Head(columns)
             step ==
                 IF ~InColumns(word_col) THEN acc
                 ELSE IF word_col \notin DfColumns
                      THEN [acc EXCEPT !.raised = "KeyError"]
                      ELSE LET total == ColumnSum(songs, word_col)
                               mine == IF HasKey(acc.counts, genre)
                                       THEN Get(acc.counts, genre) ELSE <<>>
                           IN  IF IsRecorded(total)
                               THEN [acc EXCEPT !.counts =
                                        Put(acc.counts, genre, Put(mine, word_col, total))]
                               ELSE acc
         IN  AggregateGenre(step, genre, songs, Tail(columns))

\* lines 20-31
RECURSIVE AggregateFrom(_, _, _, _)
AggregateFrom(acc, genres, d, columns) ==
    IF genres = <<>> \/ acc.raised /= "none" THEN acc
    ELSE AggregateFrom(
             AggregateGenre(acc, Head(genres), GenreSongs(d, Head(genres)), columns),
             Tail(genres), d, columns)

Aggregate(d, columns) ==
    AggregateFrom([counts |-> <<>>, raised |-> "none"], Unique(d), d, columns)

(***************************************************************************)
(* Step 2: score, sort and cut.                                            *)
(***************************************************************************)
RECURSIVE Pow(_, _)
Pow(b, e) == IF e = 0 THEN 1 ELSE b * Pow(b, e - 1)

\* a < b for scores a = a.tf * ln(a.n / a.d), b likewise (d >= 1)
ScoreLess(a, b) == Pow(a.n, a.tf) * Pow(b.d, b.tf) < Pow(b.n, b.tf) * Pow(a.d, a.tf)
ScoreEqual(a, b) == ~ScoreLess(a, b) /\ ~ScoreLess(b, a)
ScoreIsZero(a) == ScoreEqual(a, [tf |-> 0, n |-> 1, d |-> 1])

DfCountOthers(gwc, genre, word) ==
    Cardinality({i \in 1..Len(gwc) : gwc[i].k /= genre /\ HasKey(gwc[i].v, word)})

\* line 44: how many genres contain this word
DfCount(gwc, genre, word) ==
    Cardinality({i \in 1..Len(gwc) : HasKey(gwc[i].v, word)})

GenreTotalSmoothed(gwc) == Len(gwc) + 1

\* line 47: len(genre_word_counts)
GenreTotal(gwc) == Len(gwc)

\* lines 39-50 for one genre: the items of word_scores
WordScores(gwc, genre) ==
    LET mine == Get(gwc, genre)
    IN  [i \in 1..Len(mine) |->
            [k |-> mine[i].k,
             v |-> [tf |-> mine[i].v, n |-> GenreTotal(gwc),
                    d |-> DfCount(gwc, genre, mine[i].k)]]]

RECURSIVE InsertBeforeTies(_, _)
InsertBeforeTies(sorted, item) ==
    IF sorted = <<>> THEN <<item>>
    ELSE IF ~ScoreLess(item.v, Head(sorted).v) THEN <<item>> \o sorted
         ELSE <<Head(sorted)>> \o InsertBeforeTies(Tail(sorted), item)

RECURSIVE InsertAscending(_, _)
InsertAscending(sorted, item) ==
    IF sorted = <<>> THEN <<item>>
    ELSE IF ScoreLess(item.v, Head(sorted).v) THEN <<item>> \o sorted
         ELSE <<Head(sorted)>> \o InsertAscending(Tail(sorted), item)

\* the place of one item in a list sorted by descending score: behind every
\* item whose score is not smaller (sorted is stable, also with reverse=True)
RECURSIVE InsertDescending(_, _)
InsertDescending(sorted, item) ==
    IF sorted = <<>> THEN <<item>>
    ELSE IF ScoreLess(Head(sorted).v, item.v) THEN <<item>> \o sorted
         ELSE <<Head(sorted)>> \o InsertDescending(Tail(sorted), item)

\* sorted(word_scores.items(), key=lambda x: x[1], reverse=True)
RECURSIVE Sorted(_)
Sorted(items) ==
    IF items = <<>> THEN <<>>
    ELSE InsertDescending(Sorted(SubSeq(items, 1, Len(items) - 1)), items[Len(items)])

\* lines 52-54: the list of (word, score) pairs of one genre
TopWords(gwc, genre, n) ==
    LET sorted == Sorted(WordScores(gwc, genre))
        cut == SliceTo(sorted, n)
    IN  [i \in 1..Len(cut) |-> <<cut[i].k, cut[i].v>>]

\* lines 36-54: the result, one entry per key of genre_word_counts
Score(gwc, n) == [i \in 1..Len(gwc) |-> [k |-> gwc[i].k, v |-> TopWords(gwc, gwc[i].k, n)]]

\* every evaluation of lines 41-50, with the operands of
\* tf * np.log(len(genre_word_counts) / df_count)
IdfEvals(gwc) ==
    UNION {LET items == WordScores(gwc, gwc[i].k)
           IN  {[genre |-> gwc[i].k, word |-> items[j].k,
                 tf |-> items[j].v.tf, n |-> items[j].v.n, d |-> items[j].v.d] :
                    j \in 1..Len(items)} :
           i \in 1..Len(gwc)}

\* analyze_genre_distinctive_words(df, word_columns, top_n=n): what it returns
\* (result) or raises, with its genre_word_counts and its evaluations of line 47.
\* len(...) / df_count raises ZeroDivisionError when df_count is 0.
AnalyzeGenreDistinctiveWords(d, columns, n) ==
    LET agg == Aggregate(d, columns)
        evals == IF agg.raised = "none" THEN IdfEvals(agg.counts) ELSE {}
        failed == IF agg.raised /= "none" THEN agg.raised
                  ELSE IF \E e \in evals : e.d = 0 THEN "ZeroDivisionError" ELSE "none"
    IN  [counts |-> agg.counts,
         evals |-> evals,
         result |-> IF failed = "none" THEN Score(agg.counts, n) ELSE <<>>,
         raised |-> failed]

(***************************************************************************)
(* The analysis: the inputs are drawn in Init, Analyze is the call.        *)
(* The code compares genre names only for equality, so the datasets are    *)
(* taken up to a renaming of the genres: the genres first appear in the    *)
(* order of GenreOrder.  word_columns is any list of distinct names.       *)
(***************************************************************************)
Songs == [genre : Genres, counts : [DfColumns -> Counts]]

Distinct(s) == \A i, j \in 1..Len(s) : i /= j => s[i] /= s[j]

WordColumnLists == {s \in SeqsUpTo(ColumnNames, Cardinality(ColumnNames)) : Distinct(s)}

Datasets ==
    {d \in SeqsUpTo(Songs, MaxRows) : Unique(d) = SubSeq(GenreOrder, 1, Len(Unique(d)))}

NoAnalysis ==
    /\ df = <<>>
    /\ word_columns = <<>>
    /\ top_n = 0
    /\ genre_word_counts = <<>>
    /\ idf_evals = {}

NoFigure ==
    /\ cols = 0
    /\ rows = 0
    /\ axes = <<>>
    /\ saved = <<>>
    /\ files = {}

\* top_n is any integer.  A list has at most one entry per column of the
\* dataset, so every top_n from that number on cuts nothing; -1 cuts from the end.
TopNs == -1..Cardinality(DfColumns)

Init ==
    /\ pc = "start"
    /\ df \in Datasets
    /\ word_columns \in WordColumnLists
    /\ top_n \in TopNs
    /\ genre_word_counts = <<>>
    /\ idf_evals = {}
    /\ distinctive_words = <<>>
    /\ raised = "none"
    /\ NoFigure

Analyze ==
    /\ pc = "start"
    /\ \E out \in {AnalyzeGenreDistinctiveWords(df, word_columns, top_n)} :
           /\ genre_word_counts' = out.counts
           /\ idf_evals' = out.evals
           /\ distinctive_words' = out.result
           /\ raised' = out.raised
    /\ pc' = "analyzed"
    /\ UNCHANGED <<df, word_columns, top_n, cols, rows, axes, saved, files>>

Next == Analyze

Spec == Init /\ [][Next]_vars

(***************************************************************************)
(* The renderers.  Both take any result mapping; the mappings are drawn in *)
(* InitRender.  WordCloud(...).generate_from_frequencies, imshow, savefig  *)
(* and show are taken to succeed: what is modelled is which cell or file   *)
(* each genre goes to.                                                     *)
(***************************************************************************)
\* lines 73 and 136: {word.replace('_', ' '): score for word, score in words}
WordFreq(words) ==
    LET f[i \in 0..Len(words)] ==
            IF i = 0 THEN <<>>
            ELSE Put(f[i - 1], Replace(words[i][1], "_", " "), words[i][2])
    IN  f[Len(words)]

\* line 63
GridRows(n, c) == (n + c - 1) \div c

\* line 65, plt.subplots(rows, cols) with its default squeeze=True: one Axes
\* for a 1x1 grid, a 1-d array for one row or one column, else a 2-d array;
\* matplotlib raises ValueError for a number of rows that is not positive
Subplots(r, c) ==
    IF r < 1 \/ c < 1 THEN [raised |-> "ValueError", shape |-> "none", n |-> 0]
    ELSE [raised |-> "none",
          shape |-> IF r = 1 /\ c = 1 THEN "Axes"
                    ELSE IF r = 1 \/ c = 1 THEN "array1d" ELSE "array2d",
          n |-> r * c]

\* lines 66-69
FlatAxes(sub, r, c) ==
    IF r = 1
    THEN IF c = 1 THEN [raised |-> "none", shape |-> "list", n |-> 1] ELSE sub
    ELSE IF sub.shape = "Axes"
         THEN [raised |-> "AttributeError", shape |-> "none", n |-> 0]
         ELSE [sub EXCEPT !.shape = "array1d"]

BlankCell == [shows |-> "nothing", genre |-> <<>>, word_freq |-> <<>>, axis |-> "on"]

\* lines 71-92 for one genre
GenreCell(genre, words) ==
    LET word_freq == WordFreq(words)
    IN  IF word_freq /= <<>>
        THEN [shows |-> "cloud", genre |-> genre, word_freq |-> word_freq, axis |-> "off"]
        ELSE [shows |-> "text", genre |-> genre, word_freq |-> <<>>, axis |-> "off"]

\* lines 58-99; cell i of the model is axes[i - 1] of the code
CreateGenreWordclouds(c) ==
    /\ pc = "result"
    /\ LET genres == distinctive_words
           r == GridRows(Len(genres), c)
           sub == Subplots(r, c)
           flat == IF sub.raised = "none" THEN FlatAxes(sub, r, c) ELSE sub
       IN  /\ rows' = r
           /\ IF flat.raised /= "none"
              THEN raised' = flat.raised /\ axes' = <<>>
              ELSE IF flat.shape \notin {"list", "array1d"} \/ flat.n < Len(genres)
                   THEN raised' = "IndexError" /\ axes' = <<>>
                   ELSE /\ raised' = "none"
                        /\ axes' = [i \in 1..flat.n |->
                                      IF i <= Len(genres)
                                      THEN GenreCell(genres[i].k, genres[i].v)
                                      ELSE [BlankCell EXCEPT !.axis = "off"]]
    /\ cols' = c
    /\ pc' = "shown"
    /\ UNCHANGED <<df, word_columns, top_n, genre_word_counts, idf_evals,
                   distinctive_words, saved, files>>

Suffix == <<"_", "w", "o", "r", "d", "c", "l", "o", "u", "d", ".", "p", "n", "g">>

Unsanitized(genre) == genre

\* line 152: genre.replace('/', '_')
SanitizedGenre(genre) == Replace(genre, "/", "_")

\* line 152: f"{save_path}{genre.replace('/', '_')}_wordcloud.png"
FilePath(path, genre) == path \o SanitizedGenre(genre) \o Suffix

\* lines 135-154: the savefig calls, in order
RECURSIVE Written(_, _)
Written(items, path) ==
    IF items = <<>> THEN <<>>
    ELSE LET rest == Written(Tail(items), path)
         IN  IF WordFreq(Head(items).v) /= <<>>
             THEN <<[path |-> FilePath(path, Head(items).k), genre |-> Head(items).k]>> \o rest
             ELSE rest

\* plt.savefig: the file at the path is created or overwritten
RECURSIVE SaveAll(_, _, _)
SaveAll(fs, writes, call) ==
    IF writes = <<>> THEN fs
    ELSE SaveAll({f \in fs : f.path /= Head(writes).path}
                     \cup {[path |-> Head(writes).path, genre |-> Head(writes).genre,
                            call |-> call]},
                 Tail(writes), call)

MaxCalls == 2       \* calls of save_individual_wordclouds in one run

SavePaths == {<<".", "/">>, <<"o", "u", "t", "/">>}

\* lines 133-154
SaveIndividualWordclouds(path) ==
    /\ pc \in {"result", "saved"}
    /\ Len(saved) < MaxCalls
    /\ LET writes == Written(distinctive_words, path)
       IN  /\ saved' = Append(saved, [save_path |-> path,
                                      written |-> [i \in 1..Len(writes) |-> writes[i].path]])
           /\ files' = SaveAll(files, writes, Len(saved) + 1)
    /\ raised' = "none"
    /\ pc' = "saved"
    /\ UNCHANGED <<df, word_columns, top_n, genre_word_counts, idf_evals,
                   distinctive_words, cols, rows, axes>>

\* The result mappings given to the renderers: up to MaxGenres distinct genre
\* keys, each with a list of distinct words sorted by descending score.
RenderGenres == {Rock, RnB, R_B}
RenderScores == {[tf |-> 1, n |-> 2, d |-> 1], [tf |-> 1, n |-> 2, d |-> 2]}
RenderLists ==
    {l \in SeqsUpTo(DfColumns \X RenderScores, Cardinality(DfColumns)) :
        /\ \A i, j \in 1..Len(l) : i /= j => l[i][1] /= l[j][1]
        /\ \A i \in 1..(Len(l) - 1) : ~ScoreLess(l[i][2], l[i + 1][2])}
ResultMappings ==
    {m \in SeqsUpTo([k : RenderGenres, v : RenderLists], MaxGenres) :
        \A i, j \in 1..Len(m) : i /= j => m[i].k /= m[j].k}

InitRender ==
    /\ pc = "result"
    /\ distinctive_words \in ResultMappings
    /\ raised = "none"
    /\ NoAnalysis
    /\ NoFigure

NextRender ==
    \/ \E c \in 1..MaxCols : CreateGenreWordclouds(c)
    \/ \E path \in SavePaths : SaveIndividualWordclouds(path)

SpecRender == InitRender /\ [][NextRender]_vars

(***************************************************************************)
(* What the claims speak of, stated on the inputs and not through the      *)
(* operators above.                                                        *)
(***************************************************************************)
Analyzed == pc = "analyzed"

\* total[g][w]: the sum of word w's count over exactly the rows whose genre
\* is g, for every genre and column, summed row by row
RECURSIVE TotalsOver(_)
TotalsOver(i) ==
    IF i = 0 THEN [g \in Genres |-> [w \in DfColumns |-> 0]]
    ELSE LET t == TotalsOver(i - 1)
             g == df[i].genre
         IN  [t EXCEPT ![g] = [w \in DfColumns |-> t[g][w] + df[i].counts[w]]]

Totals == TotalsOver(Len(df))
RowTotal(g, w) == Totals[g][w]

DatasetGenres == {df[i].genre : i \in 1..Len(df)}
NamedColumns == {word_columns[i] : i \in 1..Len(word_columns)}
UsedColumns == NamedColumns \cap DfColumns
\* the genres with word data, and the document frequency of every word
WithData(total) == {g \in DatasetGenres : \E w \in UsedColumns : total[g][w] > 0}
DocFreqs(total) ==
    [w \in DfColumns |-> Cardinality({g \in WithData(total) : total[g][w] > 0})]
Position(w) == CHOOSE i \in 1..Len(word_columns) : word_columns[i] = w
ScoreOf(e) == [tf |-> e.tf, n |-> e.n, d |-> e.d]
ZeroScore == [tf |-> 0, n |-> 1, d |-> 1]
ListWords(l) == {l[i][1] : i \in 1..Len(l)}
Without(s, w) == SelectSeq(s, LAMBDA x : x /= w)

\* C1: in the list of every genre each (word, score) pair has a score greater
\* than or equal to the score of the pair that follows it.
C1_SortedDescending ==
    Analyzed =>
        \A k \in 1..Len(distinctive_words) :
            LET l == distinctive_words[k].v
            IN  \A i \in 1..(Len(l) - 1) : ~ScoreLess(l[i][2], l[i + 1][2])

\* a list of two words of different score whose order in word_columns is the
\* opposite of their order in the list
C1_Witness ==
    /\ Analyzed
    /\ \E k \in 1..Len(distinctive_words) :
           LET l == distinctive_words[k].v
           IN  /\ Len(l) = 2
               /\ ScoreLess(l[2][2], l[1][2])
               /\ Position(l[2][1]) < Position(l[1][1])

\* C2: for every top_n the caller may pass, the list returned for each genre
\* never contains more than top_n entries.
C2_AtMostTopN ==
    Analyzed => \A k \in 1..Len(distinctive_words) : Len(distinctive_words[k].v) <= top_n

\* the same for the calls whose top_n is not negative
AtMostTopNWhenNotNegative == top_n >= 0 => C2_AtMostTopN

\* C3: with T the number of genres with word data, a word of document
\* frequency 1 is scored with the ratio T/df = T, the largest ratio of any
\* word, and a word of document frequency T is scored with idf 0 and has score 0
\* whatever its term frequency.
C3_IdfExtremes ==
    Analyzed =>
        \A total \in {Totals} : \A docs \in {DocFreqs(total)} :
        \A T \in {Cardinality(WithData(total))} :
            /\ \A g \in WithData(total) : \A w \in UsedColumns :
                   total[g][w] > 0 => \E e \in idf_evals : e.genre = g /\ e.word = w
            /\ \A e \in idf_evals :
                   /\ docs[e.word] = 1 =>
                          /\ e.n = T * e.d
                          /\ \A o \in idf_evals : o.n * e.d <= e.n * o.d
                   /\ docs[e.word] = T =>
                          /\ e.n = e.d
                          /\ ScoreIsZero(ScoreOf(e))
            /\ \A k \in 1..Len(distinctive_words) :
                   LET l == distinctive_words[k].v
                   IN  \A i \in 1..Len(l) : docs[l[i][1]] = T => ScoreIsZero(l[i][2])

\* two genres with data, one word in one genre only, another in every genre
\* with term frequency 2
C3_Witness ==
    /\ Analyzed
    /\ Cardinality(WithData(Totals)) >= 2
    /\ \E e, o \in idf_evals :
           /\ DocFreqs(Totals)[e.word] = 1
           /\ DocFreqs(Totals)[o.word] = Cardinality(WithData(Totals))
           /\ o.tf = 2

\* C4: the genre keys of the result are exactly the genres of the dataset with
\* a named, present word column whose count summed over the genre's rows is
\* positive; they are the genre keys of the aggregated counts.
C4_GenreKeys ==
    Analyzed =>
        \A withData \in {WithData(Totals)} :
            /\ KeySet(distinctive_words) = withData
            /\ KeySet(distinctive_words) = KeySet(genre_word_counts)
            /\ KeySet(distinctive_words) \subseteq DatasetGenres
            /\ Len(distinctive_words) = Cardinality(withData)

\* one genre of the dataset is a key of the result; another is not, though a
\* column that word_columns does not name counts a word for it
C4_Witness ==
    /\ Analyzed
    /\ \E g, h \in DatasetGenres :
           /\ g \in KeySet(distinctive_words)
           /\ h \notin KeySet(distinctive_words)
           /\ \E w \in DfColumns : RowTotal(h, w) > 0

\* C5: the term frequency of (genre, word) is the word's count summed over
\* exactly the rows of that genre, a word is recorded for a genre only if that
\* sum is positive, and so every word of a genre's list has a positive sum there.
C5_TermFrequency ==
    Analyzed =>
        \A total \in {Totals} :
            /\ \A k \in 1..Len(genre_word_counts) :
                   LET g == genre_word_counts[k].k
                       counts == genre_word_counts[k].v
                   IN  /\ KeySet(counts) = {w \in UsedColumns : total[g][w] > 0}
                       /\ \A i \in 1..Len(counts) : counts[i].v = total[g][counts[i].k]
            /\ \A e \in idf_evals : e.tf = total[e.genre][e.word]
            /\ \A k \in 1..Len(distinctive_words) :
                   LET g == distinctive_words[k].k
                       l == distinctive_words[k].v
                   IN  \A i \in 1..Len(l) :
                           /\ l[i][1] \in UsedColumns
                           /\ total[g][l[i][1]] > 0
                           /\ l[i][2].tf = total[g][l[i][1]]

\* a word listed for one genre and counted 0 in another genre, which lists
\* another word, while a third genre counts the first word too
C5_Witness ==
    /\ Analyzed
    /\ \E a, b \in 1..Len(distinctive_words) :
           LET g == distinctive_words[a].k
               h == distinctive_words[b].k
           IN  /\ g /= h
               /\ Guitar \in ListWords(distinctive_words[a].v)
               /\ RowTotal(h, Guitar) = 0
               /\ MyLove \in ListWords(distinctive_words[b].v)
               /\ \E o \in DatasetGenres \ {g, h} : RowTotal(o, Guitar) > 0

\* C6: a name of word_columns that is no column of the dataset raises no
\* error, appears in no list, and the result is the result of the call with
\* that name removed from word_columns.
C6_MissingColumnSkipped ==
    Analyzed =>
        \A m \in NamedColumns \ DfColumns :
            /\ raised = "none"
            /\ \A k \in 1..Len(distinctive_words) : m \notin ListWords(distinctive_words[k].v)
            /\ LET other == AnalyzeGenreDistinctiveWords(df, Without(word_columns, m), top_n)
               IN  other.raised = "none" /\ other.result = distinctive_words

\* the missing name stands between two present ones and a list has two words
C6_Witness ==
    /\ Analyzed
    /\ Len(word_columns) = 3
    /\ word_columns[2] \notin DfColumns
    /\ \E k \in 1..Len(distinctive_words) : Len(distinctive_words[k].v) = 2

\* C8: at each evaluation of the idf expression 1 <= df(w) <= T, so no division
\* by zero happens, the ratio T/df(w) is at least 1, no score is negative, and
\* idf = 0 exactly when the word appears in every genre with word data.
C8_DocumentFrequencyRange ==
    Analyzed =>
        \A total \in {Totals} : \A docs \in {DocFreqs(total)} :
        \A T \in {Cardinality(WithData(total))} :
            /\ raised = "none"
            /\ \A e \in idf_evals :
                   /\ e.n = T
                   /\ 1 <= e.d
                   /\ e.d <= e.n
                   /\ ~ScoreLess(ScoreOf(e), ZeroScore)
                   /\ ScoreIsZero([tf |-> 1, n |-> e.n, d |-> e.d]) <=> docs[e.word] = T
            /\ \A k \in 1..Len(distinctive_words) :
                   LET l == distinctive_words[k].v
                   IN  \A i \in 1..Len(l) : ~ScoreLess(l[i][2], ZeroScore)

\* three genres with data and a word in two of them: 1 < df < T
C8_Witness ==
    /\ Analyzed
    /\ \E e \in idf_evals : 1 < e.d /\ e.d < e.n

\* C9: within one genre's list, words of equal score stand in the order of
\* their names in word_columns, and of the equal-score words at the cut the
\* ones kept are those earliest in word_columns.
C9_TiesInColumnOrder ==
    Analyzed =>
        \A k \in 1..Len(distinctive_words) :
            LET g == distinctive_words[k].k
                l == distinctive_words[k].v
            IN  /\ \A i, j \in 1..Len(l) :
                       i < j /\ ScoreEqual(l[i][2], l[j][2])
                           => Position(l[i][1]) < Position(l[j][1])
                /\ \A e \in idf_evals : \A i \in 1..Len(l) :
                       /\ e.genre = g
                       /\ e.word \notin ListWords(l)
                       /\ ScoreEqual(ScoreOf(e), l[i][2])
                       => Position(l[i][1]) < Position(e.word)

\* the cut falls between two words of equal, nonzero score, and the one kept
\* is not the one that sorts first by name
C9_Witness ==
    /\ Analyzed
    /\ top_n = 1
    /\ \E k \in 1..Len(distinctive_words) :
           LET g == distinctive_words[k].k
               l == distinctive_words[k].v
           IN  /\ Len(l) = 1
               /\ l[1][1] = MyLove
               /\ ~ScoreIsZero(l[1][2])
               /\ \E e \in idf_evals :
                      e.genre = g /\ e.word = Guitar /\ ScoreEqual(ScoreOf(e), l[1][2])

\* the genres of the mapping whose word list is not empty, in order
Drawn == SelectSeq(distinctive_words, LAMBDA item : item.v /= <<>>)

\* path is save_path, then the genre name with every "/" replaced, then the
\* suffix, and no "/" stands in the part made from the genre name
IsPathOf(path, prefix, genre) ==
    /\ Len(path) = Len(prefix) + Len(genre) + Len(Suffix)
    /\ SubSeq(path, 1, Len(prefix)) = prefix
    /\ SubSeq(path, Len(prefix) + Len(genre) + 1, Len(path)) = Suffix
    /\ \A i \in 1..Len(genre) :
           /\ path[Len(prefix) + i] /= "/"
           /\ genre[i] /= "/" => path[Len(prefix) + i] = genre[i]

\* C7: each call of save_individual_wordclouds writes, for each genre with a
\* non-empty word list and for no other, one file at save_path + sanitized
\* genre name + '_wordcloud.png', the sanitized name holding no path separator;
\* a second call with the same save_path targets the same paths and overwrites
\* the files of the first.
C7_SavePaths ==
    pc = "saved" =>
        /\ raised = "none"
        /\ \A c \in 1..Len(saved) :
               /\ Len(saved[c].written) = Len(Drawn)
               /\ \A i \in 1..Len(Drawn) :
                      IsPathOf(saved[c].written[i], saved[c].save_path, Drawn[i].k)
        /\ \A c, e \in 1..Len(saved) :
               saved[c].save_path = saved[e].save_path => saved[c].written = saved[e].written
        /\ {f.path : f \in files} =
               UNION {{saved[c].written[i] : i \in 1..Len(saved[c].written)} :
                          c \in 1..Len(saved)}
        /\ \A f, g \in files : f.path = g.path => f = g
        /\ Len(saved) = 2 /\ saved[1].save_path = saved[2].save_path =>
               /\ \A f \in files : f.call = 2
               /\ Cardinality(files) =
                      Cardinality({saved[1].written[i] : i \in 1..Len(saved[1].written)})

\* two calls with the same save_path on a mapping with a genre named with a
\* "/" that has words and a genre that has none
C7_Witness ==
    /\ pc = "saved"
    /\ Len(saved) = 2
    /\ saved[1].save_path = saved[2].save_path
    /\ \E i, j \in 1..Len(distinctive_words) :
           /\ distinctive_words[i].k = RnB
           /\ distinctive_words[i].v /= <<>>
           /\ distinctive_words[j].v = <<>>
    /\ \E f \in files : f.genre = RnB /\ f.call = 2

\* C10: for every result mapping and every cols >= 1 the grid has rows x cols
\* cells, rows the smallest number with rows x cols >= the number of genres;
\* genre i is drawn in cell i, as a word cloud if its list is non-empty and as
\* a placeholder text otherwise; every cell beyond the genres is hidden.
C10_GridLayout ==
    pc = "shown" =>
        LET n == Len(distinctive_words)
        IN  /\ raised = "none"
            /\ Len(axes) = rows * cols
            /\ rows * cols >= n
            /\ (rows - 1) * cols < n
            /\ \A i \in 1..n :
                   /\ i <= Len(axes)
                   /\ axes[i].genre = distinctive_words[i].k
                   /\ axes[i].shows =
                          IF distinctive_words[i].v /= <<>> THEN "cloud" ELSE "text"
            /\ \A i \in (n + 1)..Len(axes) :
                   axes[i].shows = "nothing" /\ axes[i].axis = "off"

\* the same for the mappings with at least one genre
GridLayoutOfGenres == distinctive_words /= <<>> => C10_GridLayout

====
